---- MODULE Spec2Model ----
(***************************************************************************)
(* A model of chain/pruned_block_dispatcher.go: the PrunedBlockDispatcher, *)
(* its request registry (blocksQueried), its response handler (handleResp),*)
(* its fan-out goroutines, its peer pool (pollPeers/connectToPeers), the   *)
(* per-peer disconnect observers (signalUponDisconnect) and Stop.          *)
(***************************************************************************)
EXTENDS Integers, Sequences, FiniteSets, TLC

\* ------------------------------------------------------------------ bounds
NumHashes == 2      \* block hashes are 1..NumHashes
MaxLen == 2         \* longest hash list passed to Query
MaxQueries == 2     \* Query calls per behaviour
MaxInvsCfg == 2     \* largest configured MaxRequestInvs
MaxTargetCfg == 2   \* largest configured NumTargetPeers
NumAddrs == 2       \* peer addresses are 1..NumAddrs
MaxHandles == 3     \* queryPeer objects created per behaviour
MaxHandlesFair == 2 \* the same, under the specification with fairness
MaxCandidates == 2  \* longest list handed to filterPeers on its own

\* ------------------------------------------------------- program constants
\* wire.MaxInvPerMsg, the limit NewPrunedBlockDispatcher and AddInvVect use.
MaxInvPerMsg == 50000
\* wire.SFNodeNetwork | wire.SFNodeWitness = 1 | 8
requiredServices == 9
\* prunedNodeService = 1 << 11
prunedNodeService == 2048

Hashes == 1..NumHashes
Addrs == 1..NumAddrs

RECURSIVE SeqsUpTo(_, _)
SeqsUpTo(S, n) ==
    IF n = 0 THEN {<<>>}
    ELSE LET shorter == SeqsUpTo(S, n - 1)
         IN shorter \cup {Append(s, x) : s \in {t \in shorter : Len(t) = n - 1}, x \in S}

HashLists == SeqsUpTo(Hashes, MaxLen)

Range(s) == {s[i] : i \in 1..Len(s)}

Count(s, x) == Cardinality({i \in 1..Len(s) : s[i] = x})

VARIABLES
    cfg,            \* PrunedBlockDispatcherConfig: NumTargetPeers, MaxRequestInvs
    dispatcher,     \* what NewPrunedBlockDispatcher returned: "none" before the call,
                    \* "built" for a dispatcher, "error" for nil and an error
    blocksQueried,  \* d.blocksQueried: hash -> list of delivery channels (<<>> = no entry)
    queries,        \* one record per Query call; its index names its delivery channel
    reqs,           \* the query.Requests handed to the work manager, in creation order
    fanout,         \* the fan-out goroutines handleResp has launched
    handles,        \* the queryPeers created by newQueryPeer
    currentPeers,   \* d.currentPeers: address -> handle (0 = no entry)
    bannedPeers,    \* d.bannedPeers
    pool,           \* the pollPeers goroutine: its position and locals
    quit,           \* d.quit is closed
    wg,             \* d.wg's counter
    stopPc,         \* the position of the Stop call
    peerInfos,      \* filterPeers on its own: the argument
    eligible,       \* filterPeers on its own: the result
    blockMtx,       \* d.blockMtx: the call that holds it ([task |-> "none"]: nobody)
    peerMtx,        \* d.peerMtx: the task that holds it
    banCalls        \* the peers for which a handleResp call has reached banPeer
                    \* and stands at its d.peerMtx.Lock()

vars == <<cfg, dispatcher, blocksQueried, queries, reqs, fanout, handles,
          currentPeers, bannedPeers, pool, quit, wg, stopPc, peerInfos, eligible,
          blockMtx, peerMtx, banCalls>>

registryVars == <<blocksQueried, queries, reqs, fanout>>
poolVars == <<handles, currentPeers, bannedPeers, pool>>
filterVars == <<peerInfos, eligible>>
lockVars == <<blockMtx, peerMtx, banCalls>>

\* A mutex nobody holds.
NoHolder == [task |-> "none"]

\* Both mutexes are free and no call is on its way into banPeer. The
\* specifications whose steps are whole critical sections stay in this state.
LocksFree ==
    /\ blockMtx = NoHolder
    /\ peerMtx = NoHolder
    /\ banCalls = {}

\* ------------------------------------------------------------ construction
\* A variant of the checks that looks at NumTargetPeers only.
ConfigAcceptedTargetOnly(c) == ~(c.NumTargetPeers < 1)

\* NewPrunedBlockDispatcher's two checks on the configuration.
ConfigAccepted(c) ==
    /\ ~(c.NumTargetPeers < 1)
    /\ ~(c.MaxRequestInvs > MaxInvPerMsg)

Configs ==
    {c \in [NumTargetPeers : 1..MaxTargetCfg, MaxRequestInvs : 0..MaxInvsCfg] :
        ConfigAccepted(c)}

\* The configurations a caller can hand to NewPrunedBlockDispatcher, accepted
\* or not: values around both limits.
NewConfigs ==
    [NumTargetPeers : (-1)..MaxTargetCfg,
     MaxRequestInvs : ((-1)..MaxInvsCfg)
                         \cup {MaxInvPerMsg - 1, MaxInvPerMsg, MaxInvPerMsg + 1}]

\* Before the call there is no dispatcher: no maps, nothing started.
NoDispatcher ==
    /\ blocksQueried = <<>>
    /\ currentPeers = <<>>
    /\ bannedPeers = {}
    /\ quit = FALSE
    /\ wg = 0
    /\ queries = <<>>
    /\ reqs = <<>>
    /\ fanout = <<>>
    /\ handles = <<>>
    /\ pool = [pc |-> "idle", peers |-> <<>>, idx |-> 0, cur |-> 0]
    /\ stopPc = "idle"
    /\ LocksFree

\* NewPrunedBlockDispatcher(cfg): the two checks, then the struct literal. It
\* starts nothing: the pool task and the work manager wait for Start.
NewPrunedBlockDispatcher ==
    /\ dispatcher = "none"
    /\ IF ConfigAccepted(cfg)
       THEN /\ dispatcher' = "built"
            /\ blocksQueried' = [h \in Hashes |-> <<>>]
            /\ currentPeers' = [a \in Addrs |-> 0]
            /\ bannedPeers' = {}
            /\ quit' = FALSE
       ELSE /\ dispatcher' = "error"
            /\ UNCHANGED <<blocksQueried, currentPeers, bannedPeers, quit>>
    /\ UNCHANGED <<cfg, wg, queries, reqs, fanout, handles, pool, stopPc>>
    /\ UNCHANGED filterVars
    /\ UNCHANGED lockVars

\* The fields NewPrunedBlockDispatcher builds: empty maps, open quit channel.
Constructed(c) ==
    /\ cfg = c
    /\ dispatcher = "built"
    /\ blocksQueried = [h \in Hashes |-> <<>>]
    /\ currentPeers = [a \in Addrs |-> 0]
    /\ bannedPeers = {}
    /\ quit = FALSE
    /\ wg = 0
    /\ queries = <<>>
    /\ reqs = <<>>
    /\ fanout = <<>>
    /\ handles = <<>>
    /\ pool = [pc |-> "idle", peers |-> <<>>, idx |-> 0, cur |-> 0]
    /\ stopPc = "idle"
    /\ LocksFree

\* --------------------------------------------------------------- newRequest
\* A variant that never finds an entry: every hash of every call gets an inv.
IsNewBlockAlways(queried, block) == TRUE

\* The hash has no entry in blocksQueried, so an inv is created for it.
IsNewBlock(queried, block) == queried[block] = <<>>

\* A variant that registers a channel only once per hash.
RegisterChanOnce(queried, block, blockChan) ==
    IF blockChan \in Range(queried[block]) THEN queried
    ELSE [queried EXCEPT ![block] = Append(@, blockChan)]

\* d.blocksQueried[*block] = append(d.blocksQueried[*block], blockChan)
RegisterChan(queried, block, blockChan) ==
    [queried EXCEPT ![block] = Append(@, blockChan)]

\* A variant that queues whatever the last iteration holds, invs or not.
QueueGetDataAtEnd(getData, i, n, maxInvs) ==
    \/ i = n
    \/ Len(getData) = maxInvs

\* A variant that queues the message only when it is full.
QueueGetDataFullOnly(getData, i, n, maxInvs) == Len(getData) = maxInvs

\* The condition under which the getdata message is queued as a request.
QueueGetData(getData, i, n, maxInvs) ==
    \/ (Len(getData) > 0 /\ i = n)
    \/ Len(getData) = maxInvs

\* The loop of newRequest from index i on. getData = <<>> stands both for the
\* nil message and for a fresh one: the loop replaces nil by a fresh message
\* before it reads it. AddInvVect fails when the message is full.
RECURSIVE newRequestLoop(_, _, _, _, _, _, _)
newRequestLoop(blocks, i, blockChan, maxInvs, queried, batches, getData) ==
    IF i > Len(blocks)
    THEN [reqs |-> batches, blocksQueried |-> queried, err |-> FALSE]
    ELSE LET block == blocks[i]
             isNew == IsNewBlock(queried, block)
             gd == IF isNew THEN Append(getData, block) ELSE getData
             queue == QueueGetData(gd, i, Len(blocks), maxInvs)
         IN IF isNew /\ Len(getData) + 1 > MaxInvPerMsg
            THEN [reqs |-> <<>>, blocksQueried |-> queried, err |-> TRUE]
            ELSE newRequestLoop(blocks, i + 1, blockChan, maxInvs,
                                RegisterChan(queried, block, blockChan),
                                IF queue THEN Append(batches, gd) ELSE batches,
                                IF queue THEN <<>> ELSE gd)

newRequest(blocks, blockChan, maxInvs, queried) ==
    newRequestLoop(blocks, 1, blockChan, maxInvs, queried, <<>>, <<>>)

NewReqRecords(batches, q) ==
    [k \in 1..Len(batches) |->
        [inv |-> batches[k], query |-> q, got |-> {}, fin |-> FALSE, failed |-> FALSE]]

\* A variant that sizes the buffer by the number of distinct hashes.
BlockChanCapDistinct(blocks) == Cardinality(Range(blocks))

\* make(chan *wire.MsgBlock, len(blocks))
BlockChanCap(blocks) == Len(blocks)

\* Query: newRequest, then the requests go to the work manager; the caller
\* gets the delivery channel (buffered to len(blocks)) and an error channel,
\* nil when there is no request.
QueryStep(blocks) ==
    /\ dispatcher = "built"
    /\ Len(queries) < MaxQueries
    /\ LET q == Len(queries) + 1
           res == newRequest(blocks, q, cfg.MaxRequestInvs, blocksQueried)
       IN /\ blocksQueried' = res.blocksQueried
          /\ queries' = Append(queries,
                [hashes |-> blocks, cap |-> BlockChanCap(blocks), recv |-> <<>>])
          /\ reqs' = reqs \o NewReqRecords(res.reqs, q)
    /\ UNCHANGED <<cfg, dispatcher, fanout, quit, wg, stopPc>>
    /\ UNCHANGED poolVars
    /\ UNCHANGED filterVars

\* Query as one step: newRequest's critical section is not interleaved.
Query(blocks) ==
    /\ QueryStep(blocks)
    /\ UNCHANGED lockVars

\* Query's error channel is nil: the test len(reqs) > 0 fails for what
\* newRequest returns in the current state.
QueryErrChanNil(blocks) ==
    ~(Len(newRequest(blocks, Len(queries) + 1, cfg.MaxRequestInvs, blocksQueried).reqs) > 0)

\* ------------------------------------------------------------------ banPeer
banPeerBanned(banned, peer) == banned \cup {peer}

\* p.Disconnect() on the handle recorded for the address, if there is one.
banPeerDisconnect(hs, cur, peer) ==
    IF cur[peer] # 0 THEN [hs EXCEPT ![cur[peer]].disc = TRUE] ELSE hs

\* --------------------------------------------------------------- handleResp
\* progress.Finished: no hash of the request's InvList has an entry left.
RespFinished(inv, queried) == \A k \in 1..Len(inv) : queried[inv[k]] = <<>>

\* A variant that leaves the entry in place.
DeleteQueriedForgotten(queried, blockHash) == queried

\* delete(d.blocksQueried, blockHash)
DeleteQueried(queried, blockHash) == [queried EXCEPT ![blockHash] = <<>>]

\* The history of a request: the hashes of its InvList a validated response
\* has delivered since the request was made.
MarkDelivered(rs, blockHash) ==
    [k \in 1..Len(rs) |->
        IF blockHash \in Range(rs[k].inv)
        THEN [rs[k] EXCEPT !.got = @ \cup {blockHash}]
        ELSE rs[k]]

\* The addresses the work manager can name: those of the peers published to it.
PublishedAddrs == {handles[i].addr : i \in {j \in 1..Len(handles) : handles[j].published}}

\* A variant that does not look the hash up in blocksQueried.
RespProgressUnsolicited(r, isBlock, blockHash, valid) ==
    LET accepted == isBlock /\ valid
    IN [Progressed |-> accepted,
        Finished |-> accepted /\ RespFinished(reqs[r].inv,
                                              DeleteQueried(blocksQueried, blockHash))]

\* A variant that skips CheckBlockSanity.
RespProgressUnchecked(r, isBlock, blockHash, valid) ==
    LET accepted == isBlock /\ blocksQueried[blockHash] # <<>>
    IN [Progressed |-> accepted,
        Finished |-> accepted /\ RespFinished(reqs[r].inv,
                                              DeleteQueried(blocksQueried, blockHash))]

\* The Progress handleResp(req, resp, peer) returns for request r and a
\* response that is a block with hash blockHash passing CheckBlockSanity or
\* not (or that is no block at all), in the current state.
RespProgress(r, isBlock, blockHash, valid) ==
    LET accepted == isBlock /\ blocksQueried[blockHash] # <<>> /\ valid
    IN [Progressed |-> accepted,
        Finished |-> accepted /\ RespFinished(reqs[r].inv,
                                              DeleteQueried(blocksQueried, blockHash))]

\* handleResp(req, resp, peer): the work manager calls it for a request it
\* has not seen finished and has not given up, with the address of a peer
\* published to it.
HandleResp(r, isBlock, blockHash, valid, peer) ==
    /\ stopPc # "returned"
    /\ pool.pc # "idle"
    /\ r \in 1..Len(reqs)
    /\ ~reqs[r].fin
    /\ ~reqs[r].failed
    /\ peer \in PublishedAddrs
    /\ LET blockChans == blocksQueried[blockHash]
           ok == isBlock /\ blockChans # <<>>
           progress == RespProgress(r, isBlock, blockHash, valid)
       IN IF progress.Progressed
          THEN /\ blocksQueried' = DeleteQueried(blocksQueried, blockHash)
               /\ reqs' = [MarkDelivered(reqs, blockHash) EXCEPT ![r].fin = progress.Finished]
               /\ wg' = wg + 1
               /\ fanout' = Append(fanout,
                     [block |-> blockHash, chans |-> blockChans, next |-> 1, st |-> "run"])
               /\ UNCHANGED <<bannedPeers, handles>>
          ELSE /\ UNCHANGED <<blocksQueried, reqs, wg, fanout>>
               /\ IF ok
                  THEN /\ bannedPeers' = banPeerBanned(bannedPeers, peer)
                       /\ handles' = banPeerDisconnect(handles, currentPeers, peer)
                  ELSE UNCHANGED <<bannedPeers, handles>>
    /\ UNCHANGED <<cfg, dispatcher, queries, currentPeers, pool, quit, stopPc>>
    /\ UNCHANGED filterVars
    /\ UNCHANGED lockVars

\* ------------------------------------------------------------- work manager
\* The work manager gives a request up: its retry budget is used up, or the
\* caller cancelled the query through the options it passed to Query. The
\* error goes to the error channel Query returned; the dispatcher has no code
\* that runs at this point, so nothing of its state changes.
WorkManagerGivesUp(r) ==
    /\ stopPc # "returned"
    /\ pool.pc # "idle"
    /\ r \in 1..Len(reqs)
    /\ ~reqs[r].fin
    /\ ~reqs[r].failed
    /\ reqs' = [reqs EXCEPT ![r].failed = TRUE]
    /\ UNCHANGED <<cfg, dispatcher, blocksQueried, queries, fanout, quit, wg, stopPc>>
    /\ UNCHANGED poolVars
    /\ UNCHANGED filterVars
    /\ UNCHANGED lockVars

\* ---------------------------------------------------------------- d.wg.Done
\* The position of Stop after a d.wg.Done() that leaves the given counter:
\* the Done that brings the counter to zero releases the goroutine blocked
\* in d.wg.Wait().
WaiterAfterDone(pc, counter) ==
    IF pc = "waiting" /\ counter = 0 THEN "released" ELSE pc

\* ------------------------------------------------------------------ fan-out
\* One iteration of the goroutine's loop taking the send case: the block goes
\* into the next channel's buffer; after the last channel the goroutine ends.
FanOutSend(t) ==
    /\ t \in 1..Len(fanout)
    /\ fanout[t].st = "run"
    /\ LET c == fanout[t].chans[fanout[t].next]
           last == fanout[t].next = Len(fanout[t].chans)
       IN /\ Len(queries[c].recv) < queries[c].cap
          /\ queries' = [queries EXCEPT ![c].recv = Append(@, fanout[t].block)]
          /\ fanout' = [fanout EXCEPT ![t].next = @ + 1,
                                      ![t].st = IF last THEN "done" ELSE "run"]
          /\ wg' = IF last THEN wg - 1 ELSE wg
          /\ stopPc' = IF last THEN WaiterAfterDone(stopPc, wg - 1) ELSE stopPc
    /\ UNCHANGED <<cfg, dispatcher, blocksQueried, reqs, quit>>
    /\ UNCHANGED poolVars
    /\ UNCHANGED filterVars
    /\ UNCHANGED lockVars

\* One iteration taking the <-d.quit case: the goroutine returns.
FanOutQuit(t) ==
    /\ t \in 1..Len(fanout)
    /\ fanout[t].st = "run"
    /\ quit
    /\ fanout' = [fanout EXCEPT ![t].st = "aborted"]
    /\ wg' = wg - 1
    /\ stopPc' = WaiterAfterDone(stopPc, wg - 1)
    /\ UNCHANGED <<cfg, dispatcher, blocksQueried, queries, reqs, quit>>
    /\ UNCHANGED poolVars
    /\ UNCHANGED filterVars
    /\ UNCHANGED lockVars

\* --------------------------------------------------------------------- Stop
\* close(d.quit) and the entry into d.wg.Wait(), which blocks: the pool task
\* is still counted.
StopClose ==
    /\ stopPc = "idle"
    /\ pool.pc # "idle"
    /\ quit' = TRUE
    /\ stopPc' = "waiting"
    /\ UNCHANGED <<cfg, dispatcher, wg>>
    /\ UNCHANGED registryVars
    /\ UNCHANGED poolVars
    /\ UNCHANGED filterVars
    /\ UNCHANGED lockVars

\* d.wg.Wait() wakes up after its release. It returns when it finds the
\* counter still zero; when handleResp has called d.wg.Add(1) in between it
\* panics ("WaitGroup is reused before previous Wait has returned").
StopWait ==
    /\ stopPc = "released"
    /\ stopPc' = IF wg = 0 THEN "stopping" ELSE "panicked"
    /\ UNCHANGED <<cfg, dispatcher, quit, wg>>
    /\ UNCHANGED registryVars
    /\ UNCHANGED poolVars
    /\ UNCHANGED filterVars
    /\ UNCHANGED lockVars

\* d.workManager.Stop() returns, and Stop with it: no handler runs any more.
StopWorkManager ==
    /\ stopPc = "stopping"
    /\ stopPc' = "returned"
    /\ UNCHANGED <<cfg, dispatcher, quit, wg>>
    /\ UNCHANGED registryVars
    /\ UNCHANGED poolVars
    /\ UNCHANGED filterVars
    /\ UNCHANGED lockVars

\* -------------------------------------------------------------- filterPeers
\* A peer's Services string is a list of characters: 0..15 are the hex digits,
\* NotHex is any other character.
NotHex == 16

\* hex.DecodeString: two digits per byte; an odd length or a character that is
\* no hex digit is an error.
HexDecodable(str) ==
    /\ Len(str) % 2 = 0
    /\ \A i \in 1..Len(str) : str[i] < NotHex

HexDecode(str) == [i \in 1..(Len(str) \div 2) |-> 16 * str[2 * i - 1] + str[2 * i]]

\* binary.BigEndian.Uint64 of the first eight bytes.
RECURSIVE BigEndian(_, _)
BigEndian(bytes, n) ==
    IF n = 0 THEN 0 ELSE 256 * BigEndian(bytes, n - 1) + bytes[n]

BigEndianUint64(bytes) == BigEndian(bytes, 8)

\* a & b on service flags
RECURSIVE BitAnd(_, _)
BitAnd(a, b) ==
    IF a = 0 \/ b = 0 THEN 0
    ELSE (a % 2) * (b % 2) + 2 * BitAnd(a \div 2, b \div 2)

\* A variant that is content with any one of the required services.
ServesFullBlocksAnyOf(services) ==
    /\ BitAnd(services, requiredServices) # 0
    /\ ~(BitAnd(services, prunedNodeService) = prunedNodeService)

\* The two tests of filterPeers' loop body: the peer is kept.
ServesFullBlocks(services) ==
    /\ ~(BitAnd(services, requiredServices) # requiredServices)
    /\ ~(BitAnd(services, prunedNodeService) = prunedNodeService)

RECURSIVE filterPeersLoop(_, _, _)
filterPeersLoop(peers, i, kept) ==
    IF i > Len(peers) THEN [eligible |-> kept, err |-> FALSE]
    ELSE IF ~HexDecodable(peers[i].Services)
         THEN [eligible |-> <<>>, err |-> TRUE]
         ELSE LET services == BigEndianUint64(HexDecode(peers[i].Services))
              IN filterPeersLoop(peers, i + 1,
                    IF ServesFullBlocks(services) THEN Append(kept, peers[i]) ELSE kept)

filterPeers(peers) == filterPeersLoop(peers, 1, <<>>)

\* Sixteen-digit Services strings with the given last four digits.
Services16(a, b, c, d) == <<0, 0, 0, 0, 0, 0, 0, 0, 0, 0, 0, 0, a, b, c, d>>

ServiceSamples ==
    {Services16(0, 4, 0, 9), Services16(0, 0, 0, 1), Services16(0, 8, 0, 1),
     Services16(0, 12, 0, 9), Services16(0, 0, 0, 9), Services16(0, 0, 0, 8),
     Services16(0, 0, 0, 13), Services16(0, 8, 0, 9), Services16(1, 4, 0, 13),
     <<0, 4, 0, NotHex>>, <<0, 4, 0>>}

PeerInfos == [Addr : Addrs, Services : ServiceSamples]

\* What the backend's GetPeers can report to the pool task: a full node or a
\* pruned node for each address.
PoolServices == {Services16(0, 4, 0, 13), Services16(0, 12, 0, 9)}

DistinctAddrs(s) == \A i, j \in 1..Len(s) : i # j => s[i].Addr # s[j].Addr

BackendLists ==
    {s \in SeqsUpTo([Addr : Addrs, Services : PoolServices], NumAddrs) : DistinctAddrs(s)}

\* rand.Shuffle: every order of the same elements.
Shuffles(s) ==
    {[i \in 1..Len(s) |-> s[f[i]]] :
        f \in {g \in [1..Len(s) -> 1..Len(s)] : \A i, j \in 1..Len(s) : i # j => g[i] # g[j]}}

\* filterPeers applied on its own to a candidate list.
FilterPeers ==
    /\ eligible = [eligible |-> <<>>, err |-> FALSE, done |-> FALSE]
    /\ eligible' = [eligible |-> filterPeers(peerInfos).eligible,
                    err |-> filterPeers(peerInfos).err, done |-> TRUE]
    /\ UNCHANGED <<cfg, dispatcher, quit, wg, stopPc, peerInfos>>
    /\ UNCHANGED registryVars
    /\ UNCHANGED poolVars
    /\ UNCHANGED lockVars

\* ----------------------------------------------------- Start and the pool task
\* Start: the work manager starts and pollPeers is launched (d.wg.Add(1)).
Start ==
    /\ dispatcher = "built"
    /\ pool.pc = "idle"
    /\ stopPc = "idle"
    /\ pool' = [pool EXCEPT !.pc = "start"]
    /\ wg' = wg + 1
    /\ UNCHANGED <<cfg, dispatcher, quit, stopPc, handles, currentPeers, bannedPeers>>
    /\ UNCHANGED registryVars
    /\ UNCHANGED filterVars
    /\ UNCHANGED lockVars

\* connectToPeers returns: pollPeers is (back) at its select.
PassOver == [pc |-> "wait", peers |-> <<>>, idx |-> 0, cur |-> 0]

\* The for loop of connectToPeers moves on to index i, or ends after the last.
NextCandidate(peers, i) ==
    IF i > Len(peers) THEN PassOver
    ELSE [pc |-> "loop", peers |-> peers, idx |-> i, cur |-> 0]

\* The head of connectToPeers: GetPeers (which may fail), filterPeers (which
\* may fail) and the shuffle. The result is the pool task's next position.
BeginPass(getPeersOk, reported, order) ==
    IF ~getPeersOk \/ filterPeers(reported).err THEN PassOver
    ELSE NextCandidate([i \in 1..Len(order) |-> order[i].Addr], 1)

\* A variant that asks for one peer less.
PeersNeededLessOne(target, cur) == target - 1 - Cardinality({a \in Addrs : cur[a] # 0})

\* pollPeers' peersNeeded
PeersNeeded(target, cur) == target - Cardinality({a \in Addrs : cur[a] # 0})

\* pollPeers' first connectToPeers call.
PoolInitialPass ==
    /\ pool.pc = "start"
    /\ \E getPeersOk \in BOOLEAN, reported \in BackendLists :
         \E order \in Shuffles(filterPeers(reported).eligible) :
            pool' = BeginPass(getPeersOk, reported, order)
    /\ UNCHANGED <<cfg, dispatcher, quit, wg, stopPc, handles, currentPeers, bannedPeers>>
    /\ UNCHANGED registryVars
    /\ UNCHANGED filterVars
    /\ UNCHANGED lockVars

\* The ticker case of pollPeers' select: when peers are needed, a pass begins.
PoolTick ==
    /\ pool.pc = "wait"
    /\ IF PeersNeeded(cfg.NumTargetPeers, currentPeers) <= 0
       THEN pool' = pool
       ELSE \E getPeersOk \in BOOLEAN, reported \in BackendLists :
              \E order \in Shuffles(filterPeers(reported).eligible) :
                 pool' = BeginPass(getPeersOk, reported, order)
    /\ UNCHANGED <<cfg, dispatcher, quit, wg, stopPc, handles, currentPeers, bannedPeers>>
    /\ UNCHANGED registryVars
    /\ UNCHANGED filterVars
    /\ UNCHANGED lockVars

\* The quit case of pollPeers' select: the goroutine returns (wg.Done).
PoolQuit ==
    /\ pool.pc = "wait"
    /\ quit
    /\ pool' = [pool EXCEPT !.pc = "done"]
    /\ wg' = wg - 1
    /\ stopPc' = WaiterAfterDone(stopPc, wg - 1)
    /\ UNCHANGED <<cfg, dispatcher, quit, handles, currentPeers, bannedPeers>>
    /\ UNCHANGED registryVars
    /\ UNCHANGED filterVars
    /\ UNCHANGED lockVars

\* The candidate is skipped by the loop's first test.
SkipCandidate(banned, cur, addr) == addr \in banned \/ cur[addr] # 0

\* newQueryPeer: the peer.Config is built with AllowSelfConns: true, whatever
\* d.cfg.AllowSelfPeerConns says; the handle is not connected yet.
NewHandle(addr) ==
    [addr |-> addr, conn |-> FALSE, disc |-> FALSE, obs |-> "none", published |-> FALSE,
     AllowSelfConns |-> TRUE]

\* The top of an iteration: the banned/connected test under peerMtx, then
\* newQueryPeer, whose failure ends the pass with an error.
PoolCheckStep ==
    /\ pool.pc = "loop"
    /\ LET addr == pool.peers[pool.idx]
       IN IF SkipCandidate(bannedPeers, currentPeers, addr)
          THEN /\ pool' = NextCandidate(pool.peers, pool.idx + 1)
               /\ UNCHANGED handles
          ELSE \/ /\ Len(handles) < MaxHandles
                  /\ handles' = Append(handles, NewHandle(addr))
                  /\ pool' = [pool EXCEPT !.pc = "connect", !.cur = Len(handles) + 1]
               \/ /\ pool' = PassOver
                  /\ UNCHANGED handles
    /\ UNCHANGED <<cfg, dispatcher, quit, wg, stopPc, currentPeers, bannedPeers>>
    /\ UNCHANGED registryVars
    /\ UNCHANGED filterVars

\* The same as one step, the critical section not interleaved.
PoolCheck ==
    /\ PoolCheckStep
    /\ UNCHANGED lockVars

\* A variant of connectToPeers in which a failed connectToPeer ends the pass
\* (return instead of continue).
PoolConnectFailureEndsPass(outcome) ==
    /\ pool.pc = "connect"
    /\ outcome = "quit" => quit
    /\ handles' =
         [handles EXCEPT ![pool.cur] =
            CASE outcome = "dialerr" -> @
              [] outcome = "timeout" -> [@ EXCEPT !.conn = TRUE, !.disc = TRUE]
              [] outcome = "quit" -> [@ EXCEPT !.conn = TRUE]
              [] outcome = "ready" -> [@ EXCEPT !.conn = TRUE, !.obs = "waiting"]]
    /\ pool' =
         CASE outcome \in {"dialerr", "timeout", "quit"} -> PassOver
           [] outcome = "ready" -> [pool EXCEPT !.pc = "publish"]
    /\ UNCHANGED <<cfg, dispatcher, quit, wg, stopPc, currentPeers, bannedPeers>>
    /\ UNCHANGED registryVars
    /\ UNCHANGED filterVars
    /\ UNCHANGED lockVars

\* connectToPeer: Dial, AssociateConnection and the wait for the ready signal.
\*   "dialerr": Dial fails; "timeout": PeerReadyTimeout passes, the peer is
\*   disconnected; "quit": d.quit is closed; "ready": the version exchange is
\*   done and the disconnect observer is launched.
PoolConnect(outcome) ==
    /\ pool.pc = "connect"
    /\ outcome = "quit" => quit
    /\ handles' =
         [handles EXCEPT ![pool.cur] =
            CASE outcome = "dialerr" -> @
              [] outcome = "timeout" -> [@ EXCEPT !.conn = TRUE, !.disc = TRUE]
              [] outcome = "quit" -> [@ EXCEPT !.conn = TRUE]
              [] outcome = "ready" -> [@ EXCEPT !.conn = TRUE, !.obs = "waiting"]]
    /\ pool' =
         CASE outcome \in {"dialerr", "timeout"} -> NextCandidate(pool.peers, pool.idx + 1)
           [] outcome = "quit" -> PassOver
           [] outcome = "ready" -> [pool EXCEPT !.pc = "publish"]
    /\ UNCHANGED <<cfg, dispatcher, quit, wg, stopPc, currentPeers, bannedPeers>>
    /\ UNCHANGED registryVars
    /\ UNCHANGED filterVars
    /\ UNCHANGED lockVars

\* The send case of the select on d.peersConnected: the work manager takes
\* the peer.
PoolPublish ==
    /\ pool.pc = "publish"
    /\ stopPc # "returned"
    /\ handles' = [handles EXCEPT ![pool.cur].published = TRUE]
    /\ pool' = [pool EXCEPT !.pc = "record"]
    /\ UNCHANGED <<cfg, dispatcher, quit, wg, stopPc, currentPeers, bannedPeers>>
    /\ UNCHANGED registryVars
    /\ UNCHANGED filterVars
    /\ UNCHANGED lockVars

\* The quit case of that select: connectToPeers returns "shutting down".
PoolPublishQuit ==
    /\ pool.pc = "publish"
    /\ quit
    /\ pool' = PassOver
    /\ UNCHANGED <<cfg, dispatcher, quit, wg, stopPc, handles, currentPeers, bannedPeers>>
    /\ UNCHANGED registryVars
    /\ UNCHANGED filterVars
    /\ UNCHANGED lockVars

\* A variant that ends the pass one peer late.
TargetReachedLate(numPeers, target) == numPeers = target + 1

\* The pass ends when the recorded peer brought the count to the target.
TargetReached(numPeers, target) == numPeers = target

\* d.currentPeers[addr] = peer under peerMtx, then the test that ends the pass.
PoolRecordStep ==
    /\ pool.pc = "record"
    /\ LET addr == handles[pool.cur].addr
           recorded == [currentPeers EXCEPT ![addr] = pool.cur]
           numPeers == Cardinality({a \in Addrs : recorded[a] # 0})
       IN /\ currentPeers' = recorded
          /\ pool' = IF TargetReached(numPeers, cfg.NumTargetPeers)
                     THEN PassOver
                     ELSE NextCandidate(pool.peers, pool.idx + 1)
    /\ UNCHANGED <<cfg, dispatcher, quit, wg, stopPc, handles, bannedPeers>>
    /\ UNCHANGED registryVars
    /\ UNCHANGED filterVars

\* The same as one step, the critical section not interleaved.
PoolRecord ==
    /\ PoolRecordStep
    /\ UNCHANGED lockVars

\* ------------------------------------------------- peers and their observers
\* The connection of handle h ends for a reason of the remote side's.
PeerDisconnects(h) ==
    /\ h \in 1..Len(handles)
    /\ handles[h].conn
    /\ ~handles[h].disc
    /\ handles' = [handles EXCEPT ![h].disc = TRUE]
    /\ UNCHANGED <<cfg, dispatcher, quit, wg, stopPc, currentPeers, bannedPeers, pool>>
    /\ UNCHANGED registryVars
    /\ UNCHANGED filterVars
    /\ UNCHANGED lockVars

\* signalUponDisconnect's goroutine: WaitForDisconnect returns, close(p.quit).
ObserverSignal(h) ==
    /\ h \in 1..Len(handles)
    /\ handles[h].obs = "waiting"
    /\ handles[h].disc
    /\ handles' = [handles EXCEPT ![h].obs = "closed"]
    /\ UNCHANGED <<cfg, dispatcher, quit, wg, stopPc, currentPeers, bannedPeers, pool>>
    /\ UNCHANGED registryVars
    /\ UNCHANGED filterVars
    /\ UNCHANGED lockVars

\* ... then f(): delete(d.currentPeers, peer.Addr()) under peerMtx.
ObserverCleanupStep(h) ==
    /\ h \in 1..Len(handles)
    /\ handles[h].obs = "closed"
    /\ handles' = [handles EXCEPT ![h].obs = "done"]
    /\ currentPeers' = [currentPeers EXCEPT ![handles[h].addr] = 0]
    /\ UNCHANGED <<cfg, dispatcher, quit, wg, stopPc, bannedPeers, pool>>
    /\ UNCHANGED registryVars
    /\ UNCHANGED filterVars

\* The same as one step, the critical section not interleaved.
ObserverCleanup(h) ==
    /\ ObserverCleanupStep(h)
    /\ UNCHANGED lockVars

\* ------------------------------------------------------------ the two mutexes
\* The critical sections step by step: a Lock that waits until the mutex is
\* free, then the section up to its Unlock.

\* newRequest: d.blockMtx.Lock(), after the delivery channel was made.
LockNewRequest(blocks) ==
    /\ dispatcher = "built"
    /\ Len(queries) < MaxQueries
    /\ blockMtx = NoHolder
    /\ blockMtx' = [task |-> "newRequest", blocks |-> blocks]
    /\ UNCHANGED <<cfg, dispatcher, quit, wg, stopPc, peerMtx, banCalls>>
    /\ UNCHANGED registryVars
    /\ UNCHANGED poolVars
    /\ UNCHANGED filterVars

\* newRequest's loop and its deferred Unlock; Query then hands the requests
\* to the work manager.
RunNewRequest ==
    /\ blockMtx.task = "newRequest"
    /\ QueryStep(blockMtx.blocks)
    /\ blockMtx' = NoHolder
    /\ UNCHANGED <<peerMtx, banCalls>>

\* handleResp for a block message: the type tests pass and
\* d.blockMtx.Lock() is taken. The worker of a peer runs one call at a time.
LockHandleResp(r, blockHash, valid, peer) ==
    /\ stopPc # "returned"
    /\ pool.pc # "idle"
    /\ r \in 1..Len(reqs)
    /\ ~reqs[r].fin
    /\ ~reqs[r].failed
    /\ peer \in PublishedAddrs
    /\ peer \notin banCalls
    /\ ~(peerMtx.task = "banPeer" /\ peerMtx.peer = peer)
    /\ blockMtx = NoHolder
    /\ blockMtx' = [task |-> "handleResp", r |-> r, blockHash |-> blockHash,
                    valid |-> valid, peer |-> peer]
    /\ UNCHANGED <<cfg, dispatcher, quit, wg, stopPc, peerMtx, banCalls>>
    /\ UNCHANGED registryVars
    /\ UNCHANGED poolVars
    /\ UNCHANGED filterVars

\* A variant that keeps d.blockMtx through banPeer (a deferred Unlock).
KeptThroughBan(holder) == holder

\* d.blockMtx after the error path's d.blockMtx.Unlock(), which comes before
\* d.banPeer(peer).
UnlockedBeforeBan(holder) == NoHolder

\* handleResp under d.blockMtx: the lookup, CheckBlockSanity and then either
\* an Unlock and the way into banPeer, or the delete, the Finished loop, the
\* Unlock and the launch of the fan-out goroutine.
RunHandleResp ==
    /\ blockMtx.task = "handleResp"
    /\ LET r == blockMtx.r
           blockHash == blockMtx.blockHash
           blockChans == blocksQueried[blockHash]
           progress == RespProgress(r, TRUE, blockHash, blockMtx.valid)
       IN IF progress.Progressed
          THEN /\ blocksQueried' = DeleteQueried(blocksQueried, blockHash)
               /\ reqs' = [MarkDelivered(reqs, blockHash) EXCEPT ![r].fin = progress.Finished]
               /\ wg' = wg + 1
               /\ fanout' = Append(fanout,
                     [block |-> blockHash, chans |-> blockChans, next |-> 1, st |-> "run"])
               /\ blockMtx' = NoHolder
               /\ UNCHANGED banCalls
          ELSE /\ UNCHANGED <<blocksQueried, reqs, wg, fanout>>
               /\ IF blockChans # <<>>
                  THEN /\ blockMtx' = UnlockedBeforeBan(blockMtx)
                       /\ banCalls' = banCalls \cup {blockMtx.peer}
                  ELSE /\ blockMtx' = NoHolder
                       /\ UNCHANGED banCalls
    /\ UNCHANGED <<cfg, dispatcher, queries, quit, stopPc, peerMtx>>
    /\ UNCHANGED poolVars
    /\ UNCHANGED filterVars

\* banPeer: d.peerMtx.Lock().
LockBanPeer(peer) ==
    /\ peer \in banCalls
    /\ peerMtx = NoHolder
    /\ peerMtx' = [task |-> "banPeer", peer |-> peer]
    /\ banCalls' = banCalls \ {peer}
    /\ UNCHANGED <<cfg, dispatcher, quit, wg, stopPc, blockMtx>>
    /\ UNCHANGED registryVars
    /\ UNCHANGED poolVars
    /\ UNCHANGED filterVars

\* banPeer under d.peerMtx: the ban, the Disconnect and the deferred Unlock.
RunBanPeer ==
    /\ peerMtx.task = "banPeer"
    /\ bannedPeers' = banPeerBanned(bannedPeers, peerMtx.peer)
    /\ handles' = banPeerDisconnect(handles, currentPeers, peerMtx.peer)
    /\ peerMtx' = NoHolder
    /\ UNCHANGED <<cfg, dispatcher, quit, wg, stopPc, currentPeers, pool, blockMtx, banCalls>>
    /\ UNCHANGED registryVars
    /\ UNCHANGED filterVars

\* The pool task's d.peerMtx.Lock(), at the top of an iteration or before it
\* records the peer.
LockPool ==
    /\ pool.pc \in {"loop", "record"}
    /\ peerMtx = NoHolder
    /\ peerMtx' = [task |-> "pool"]
    /\ UNCHANGED <<cfg, dispatcher, quit, wg, stopPc, blockMtx, banCalls>>
    /\ UNCHANGED registryVars
    /\ UNCHANGED poolVars
    /\ UNCHANGED filterVars

\* The two map reads and the Unlock, then newQueryPeer.
RunPoolCheck ==
    /\ peerMtx.task = "pool"
    /\ PoolCheckStep
    /\ Len(handles') <= MaxHandlesFair  \* past the bound newQueryPeer fails
    /\ peerMtx' = NoHolder
    /\ UNCHANGED <<blockMtx, banCalls>>

\* The map write, len and the Unlock, then the test that ends the pass.
RunPoolRecord ==
    /\ peerMtx.task = "pool"
    /\ PoolRecordStep
    /\ peerMtx' = NoHolder
    /\ UNCHANGED <<blockMtx, banCalls>>

\* The observer's cleanup function: d.peerMtx.Lock().
LockObserver(h) ==
    /\ h \in 1..Len(handles)
    /\ handles[h].obs = "closed"
    /\ peerMtx = NoHolder
    /\ peerMtx' = [task |-> "observer", h |-> h]
    /\ UNCHANGED <<cfg, dispatcher, quit, wg, stopPc, blockMtx, banCalls>>
    /\ UNCHANGED registryVars
    /\ UNCHANGED poolVars
    /\ UNCHANGED filterVars

\* The delete and the Unlock.
RunObserver ==
    /\ peerMtx.task = "observer"
    /\ ObserverCleanupStep(peerMtx.h)
    /\ peerMtx' = NoHolder
    /\ UNCHANGED <<blockMtx, banCalls>>

\* ----------------------------------------------------------- specifications
NotFiltered == [eligible |-> <<>>, err |-> FALSE, done |-> FALSE]

\* The pool: a dispatcher as constructed, then Start, the pool task, the
\* peers and their observers, one Query for hash 1, responses to it that fail
\* validation, and Stop.
InitPool ==
    /\ \E c \in Configs : c.MaxRequestInvs = MaxInvsCfg /\ Constructed(c)
    /\ peerInfos = <<>>
    /\ eligible = NotFiltered

QueryOne ==
    /\ queries = <<>>
    /\ Query(<<1>>)

InvalidResp == \E r \in 1..Len(reqs), peer \in Addrs : HandleResp(r, TRUE, 1, FALSE, peer)

NextPool ==
    \/ Start
    \/ QueryOne
    \/ InvalidResp
    \/ PoolInitialPass
    \/ PoolTick
    \/ PoolQuit
    \/ PoolCheck
    \/ \E outcome \in {"dialerr", "timeout", "quit", "ready"} : PoolConnect(outcome)
    \/ PoolPublish
    \/ PoolPublishQuit
    \/ PoolRecord
    \/ \E h \in 1..MaxHandles : PeerDisconnects(h)
    \/ \E h \in 1..MaxHandles : ObserverSignal(h)
    \/ \E h \in 1..MaxHandles : ObserverCleanup(h)
    \/ StopClose
    \/ StopWait
    \/ StopWorkManager

SpecPool == InitPool /\ [][NextPool]_vars

\* The registry: a started dispatcher whose first connection pass has
\* connected the peer at address 1 (a state SpecPool reaches with
\* NumTargetPeers = 1), then Query calls, responses of every kind and the
\* fan-out goroutines of a dispatcher that is not stopped.
DispatchStartPool ==
    /\ handles = <<[NewHandle(1) EXCEPT !.conn = TRUE, !.obs = "waiting",
                                        !.published = TRUE]>>
    /\ currentPeers = [a \in Addrs |-> IF a = 1 THEN 1 ELSE 0]
    /\ bannedPeers = {}
    /\ pool = PassOver
    /\ wg = 1
    /\ quit = FALSE
    /\ stopPc = "idle"
    /\ LocksFree

InitDispatch ==
    /\ cfg \in {c \in Configs : c.NumTargetPeers = 1}
    /\ dispatcher = "built"
    /\ blocksQueried = [h \in Hashes |-> <<>>]
    /\ queries = <<>>
    /\ reqs = <<>>
    /\ fanout = <<>>
    /\ DispatchStartPool
    /\ peerInfos = <<>>
    /\ eligible = NotFiltered

Respond ==
    \E r \in 1..Len(reqs), isBlock \in BOOLEAN, blockHash \in Hashes,
       valid \in BOOLEAN, peer \in Addrs :
        HandleResp(r, isBlock, blockHash, valid, peer)

NextDispatch ==
    \/ \E blocks \in HashLists : Query(blocks)
    \/ Respond
    \/ \E t \in 1..(MaxQueries * MaxLen) : FanOutSend(t)

SpecDispatch == InitDispatch /\ [][NextDispatch]_vars

\* Shutdown: the same started dispatcher, Query calls that ask for hash 1
\* (once or several times), responses of every kind, the fan-out goroutines,
\* the connected peer and its observer, and Stop with the pool task's exit.
InitStop ==
    /\ InitDispatch
    /\ cfg.MaxRequestInvs = MaxInvsCfg

QueryStop == \E blocks \in SeqsUpTo({1}, MaxLen) : Query(blocks)

NextStop ==
    \/ QueryStop
    \/ Respond
    \/ \E t \in 1..(MaxQueries * MaxLen) : FanOutSend(t)
    \/ \E t \in 1..(MaxQueries * MaxLen) : FanOutQuit(t)
    \/ \E h \in 1..MaxHandles : PeerDisconnects(h)
    \/ \E h \in 1..MaxHandles : ObserverSignal(h)
    \/ \E h \in 1..MaxHandles : ObserverCleanup(h)
    \/ PoolQuit
    \/ StopClose
    \/ StopWait
    \/ StopWorkManager

SpecStop == InitStop /\ [][NextStop]_vars

\* filterPeers on its own, applied once to a list of candidates.
InitFilter ==
    /\ \E c \in Configs : c.NumTargetPeers = 1 /\ c.MaxRequestInvs = 1 /\ Constructed(c)
    /\ peerInfos \in SeqsUpTo(PeerInfos, MaxCandidates)
    /\ eligible = NotFiltered

NextFilter == FilterPeers

SpecFilter == InitFilter /\ [][NextFilter]_vars

\* Construction: a configuration of any kind, NewPrunedBlockDispatcher, and
\* the first calls on the dispatcher it returned.
InitNew ==
    /\ cfg \in NewConfigs
    /\ dispatcher = "none"
    /\ NoDispatcher
    /\ peerInfos = <<>>
    /\ eligible = NotFiltered

NextNew ==
    \/ NewPrunedBlockDispatcher
    \/ Start
    \/ \E blocks \in HashLists : Query(blocks)

SpecNew == InitNew /\ [][NextNew]_vars

\* The pool with a backend and peers that cooperate: GetPeers succeeds and
\* reports at least NumTargetPeers eligible peers, newQueryPeer succeeds,
\* every dial and handshake succeeds, nobody is banned, and a peer is lost
\* only while the pool is full and the pool task waits for a tick, one peer
\* at a time.
EnoughEligible ==
    /\ pool'.pc = "loop"
    /\ Len(pool'.peers) >= cfg.NumTargetPeers

RefillInitialPass == PoolInitialPass /\ EnoughEligible

RefillTick ==
    /\ PoolTick
    /\ PeersNeeded(cfg.NumTargetPeers, currentPeers) > 0 => EnoughEligible

RefillCheck ==
    /\ PoolCheck
    /\ \/ SkipCandidate(bannedPeers, currentPeers, pool.peers[pool.idx])
       \/ pool'.pc = "connect"

RefillConnect == PoolConnect("ready")

RefillDisconnect(h) ==
    /\ pool.pc = "wait"
    /\ Cardinality({a \in Addrs : currentPeers[a] # 0}) = cfg.NumTargetPeers
    /\ \A g \in 1..Len(handles) : handles[g].disc => handles[g].obs = "done"
    /\ PeerDisconnects(h)
    /\ currentPeers[handles[h].addr] = h

NextRefill ==
    \/ Start
    \/ RefillInitialPass
    \/ RefillTick
    \/ RefillCheck
    \/ RefillConnect
    \/ PoolPublish
    \/ PoolRecord
    \/ \E h \in 1..MaxHandles : RefillDisconnect(h)
    \/ \E h \in 1..MaxHandles : ObserverSignal(h)
    \/ \E h \in 1..MaxHandles : ObserverCleanup(h)

SpecRefill == InitPool /\ [][NextRefill]_vars

\* The pool of SpecRefill under a configuration that also carries the
\* AllowSelfPeerConns flag, set (tests) or unset (production).
InitSelfConns ==
    /\ \E c \in Configs, allow \in BOOLEAN :
          /\ c.MaxRequestInvs = MaxInvsCfg
          /\ Constructed([NumTargetPeers |-> c.NumTargetPeers,
                          MaxRequestInvs |-> c.MaxRequestInvs,
                          AllowSelfPeerConns |-> allow])
    /\ peerInfos = <<>>
    /\ eligible = NotFiltered

SpecSelfConns == InitSelfConns /\ [][NextRefill]_vars

\* Retry: a started dispatcher whose first pass has connected a peer at
\* every address, Query calls that ask for hash 1 (once or several times),
\* responses of every kind from either peer, and the fan-out goroutines.
InitRetry ==
    /\ cfg \in {c \in Configs : c.NumTargetPeers = NumAddrs}
    /\ dispatcher = "built"
    /\ blocksQueried = [h \in Hashes |-> <<>>]
    /\ queries = <<>>
    /\ reqs = <<>>
    /\ fanout = <<>>
    /\ handles = [a \in Addrs |-> [NewHandle(a) EXCEPT !.conn = TRUE, !.obs = "waiting",
                                                      !.published = TRUE]]
    /\ currentPeers = [a \in Addrs |-> a]
    /\ bannedPeers = {}
    /\ pool = PassOver
    /\ wg = 1
    /\ quit = FALSE
    /\ stopPc = "idle"
    /\ LocksFree
    /\ peerInfos = <<>>
    /\ eligible = NotFiltered

NextRetry ==
    \/ QueryStop
    \/ Respond
    \/ \E t \in 1..(MaxQueries * MaxLen) : FanOutSend(t)

SpecRetry == InitRetry /\ [][NextRetry]_vars

\* The pool on its own, with dials and handshakes that may fail: no Query, no
\* response and no Stop.
NextDial ==
    \/ Start
    \/ PoolInitialPass
    \/ PoolTick
    \/ PoolCheck
    \/ \E outcome \in {"dialerr", "timeout", "ready"} : PoolConnect(outcome)
    \/ PoolPublish
    \/ PoolRecord
    \/ \E h \in 1..MaxHandles : PeerDisconnects(h)
    \/ \E h \in 1..MaxHandles : ObserverSignal(h)
    \/ \E h \in 1..MaxHandles : ObserverCleanup(h)

SpecDial == InitPool /\ [][NextDial]_vars

\* Requests that fail: the started dispatcher of SpecStop, Query calls that
\* ask for hash 1, responses of every kind, the fan-out goroutines, and a
\* work manager that may give a request up.
NextGiveUp ==
    \/ QueryStop
    \/ Respond
    \/ \E t \in 1..(MaxQueries * MaxLen) : FanOutSend(t)
    \/ \E r \in 1..(MaxQueries * MaxLen) : WorkManagerGivesUp(r)

SpecGiveUp == InitStop /\ [][NextGiveUp]_vars

\* The mutexes: the pool, its peers and their observers, Query calls for
\* hash 1 and block responses to them, valid or not, with every Lock and
\* every critical section a step of its own.
NextLocks ==
    \/ Start
    \/ PoolInitialPass
    \/ PoolTick
    \/ LockPool
    \/ RunPoolCheck
    \/ \E outcome \in {"dialerr", "timeout", "ready"} : PoolConnect(outcome)
    \/ PoolPublish
    \/ RunPoolRecord
    \/ \E h \in 1..MaxHandles : PeerDisconnects(h)
    \/ \E h \in 1..MaxHandles : ObserverSignal(h)
    \/ \E h \in 1..MaxHandles : LockObserver(h)
    \/ RunObserver
    \/ LockNewRequest(<<1>>)
    \/ RunNewRequest
    \/ \E r \in 1..MaxQueries, valid \in BOOLEAN, peer \in Addrs :
          LockHandleResp(r, 1, valid, peer)
    \/ RunHandleResp
    \/ \E peer \in Addrs : LockBanPeer(peer)
    \/ RunBanPeer
    \/ \E t \in 1..MaxQueries : FanOutSend(t)

SpecLocks == InitPool /\ [][NextLocks]_vars

\* Shutdown of the whole dispatcher: the pool of SpecPool together with
\* responses that pass validation and their fan-out goroutines. A goroutine
\* that can take a step takes one: GetPeers, Dial and the work manager's Stop
\* return, the ready timer fires, wg.Wait returns once the counter is zero.
\* Nothing is assumed about the work manager taking a published handle or
\* about the caller reading its channel. A select that finds quit closed
\* again and again takes the quit case in the end.
ValidResp == \E r \in 1..Len(reqs), peer \in Addrs : HandleResp(r, TRUE, 1, TRUE, peer)

ShutdownCheck ==
    /\ PoolCheck
    /\ Len(handles') <= MaxHandlesFair

NextShutdown ==
    \/ Start
    \/ QueryOne
    \/ InvalidResp
    \/ PoolInitialPass
    \/ PoolTick
    \/ PoolQuit
    \/ ShutdownCheck
    \/ \E outcome \in {"dialerr", "timeout", "quit", "ready"} : PoolConnect(outcome)
    \/ PoolPublish
    \/ PoolPublishQuit
    \/ PoolRecord
    \/ \E h \in 1..MaxHandles : PeerDisconnects(h)
    \/ \E h \in 1..MaxHandles : ObserverSignal(h)
    \/ \E h \in 1..MaxHandles : ObserverCleanup(h)
    \/ StopClose
    \/ StopWait
    \/ StopWorkManager
    \/ ValidResp
    \/ \E t \in 1..MaxQueries : FanOutSend(t)
    \/ \E t \in 1..MaxQueries : FanOutQuit(t)

FairShutdown ==
    /\ WF_vars(PoolInitialPass)
    /\ WF_vars(ShutdownCheck)
    /\ WF_vars(\E outcome \in {"dialerr", "timeout", "quit", "ready"} : PoolConnect(outcome))
    /\ WF_vars(PoolPublishQuit)
    /\ WF_vars(PoolRecord)
    /\ SF_vars(PoolQuit)
    /\ \A t \in 1..MaxQueries : WF_vars(FanOutSend(t) \/ FanOutQuit(t))
    /\ WF_vars(StopWait)
    /\ WF_vars(StopWorkManager)

SpecShutdown == InitPool /\ [][NextShutdown]_vars /\ FairShutdown

\* ------------------------------------------------------------------- claims
\* What the claims read off the state.
Pending(h) == blocksQueried[h] # <<>>

\* The requests holding an inventory entry for h that no validated response
\* has answered since the request was made.
OpenInvs(h) == {r \in 1..Len(reqs) : h \in Range(reqs[r].inv) /\ h \notin reqs[r].got}

\* How often fan-out goroutine t has sent its block to the channel of query q.
SentTo(t, q) == Cardinality({i \in 1..(fanout[t].next - 1) : fanout[t].chans[i] = q})

\* How often the fan-out goroutines 1..k captured / served q's channel for h.
RECURSIVE CapturedUpTo(_, _, _)
CapturedUpTo(k, q, h) ==
    IF k = 0 THEN 0
    ELSE CapturedUpTo(k - 1, q, h)
         + (IF fanout[k].block = h THEN Count(fanout[k].chans, q) ELSE 0)

RECURSIVE SentUpTo(_, _, _)
SentUpTo(k, q, h) ==
    IF k = 0 THEN 0
    ELSE SentUpTo(k - 1, q, h) + (IF fanout[k].block = h THEN SentTo(k, q) ELSE 0)

\* C1: a hash two Query calls both ask for while it is pending has exactly one
\* inventory entry, in a request of the call that asked first; every call
\* that asked is registered for it or was captured by the fan-out of its
\* block; and a fan-out that has run to its end has put the block into the
\* channel of every call it captured.
DedupAndFanOut ==
    /\ \A h \in Hashes :
         Pending(h) =>
            \E r \in 1..Len(reqs) :
               /\ OpenInvs(h) = {r}
               /\ Count(reqs[r].inv, h) = 1
               /\ reqs[r].query = blocksQueried[h][1]
    /\ \A h \in Hashes, q \in 1..Len(queries) :
         h \in Range(queries[q].hashes) =>
            \/ q \in Range(blocksQueried[h])
            \/ CapturedUpTo(Len(fanout), q, h) > 0
    /\ \A t \in 1..Len(fanout) :
         fanout[t].st = "done" =>
            \A q \in Range(fanout[t].chans) :
               Count(queries[q].recv, fanout[t].block) >= 1

\* C1's case: a fan-out has served two different calls.
TwoCallersServed ==
    \E t \in 1..Len(fanout) :
       /\ fanout[t].st = "done"
       /\ \E a, b \in Range(fanout[t].chans) :
            /\ a # b
            /\ fanout[t].block \in Range(queries[a].recv)
            /\ fanout[t].block \in Range(queries[b].recv)
            /\ Cardinality({r \in 1..Len(reqs) : fanout[t].block \in Range(reqs[r].inv)}) = 1

NewBatches == SubSeq(reqs', Len(reqs) + 1, Len(reqs'))

\* The hashes of a list that have no entry when the call begins: each is not
\* pending when the loop first reaches it, and pending at every later turn.
FreshCount(blocks) == Cardinality({h \in Range(blocks) : ~Pending(h)})

\* C2: for every accepted configuration and every hash list, Query emits
\* ceil(L'/MaxRequestInvs) batches, L' being the number of hashes that were
\* not pending at their turn, and no batch holds more than MaxRequestInvs
\* entries.
BatchCountAndSize ==
    [][\A blocks \in HashLists :
          Query(blocks) =>
             LET n == Len(NewBatches)
                 fresh == FreshCount(blocks)
             IN /\ \A k \in 1..n : Len(NewBatches[k].inv) <= cfg.MaxRequestInvs
                /\ IF fresh = 0 THEN n = 0
                   ELSE /\ (n - 1) * cfg.MaxRequestInvs < fresh
                        /\ fresh <= n * cfg.MaxRequestInvs]_vars

\* C3: handleResp reports Finished for a request exactly when the block it
\* just validated leaves every hash of the request's inventory list delivered.
FinishedIffAllDelivered ==
    [][\A r \in 1..Len(reqs), h \in Hashes, peer \in Addrs :
          HandleResp(r, TRUE, h, TRUE, peer) =>
             (RespProgress(r, TRUE, h, TRUE).Finished
                <=> (Pending(h) /\ Range(reqs'[r].inv) \subseteq reqs'[r].got))]_vars

Connected == {a \in Addrs : currentPeers[a] # 0}

\* C4: when handleResp returns after a block failed validation, the peer's
\* address is in bannedPeers and not in currentPeers.
BannedAndGoneOnReturn ==
    [][\A r \in 1..Len(reqs), h \in Hashes, peer \in Addrs :
          (Pending(h) /\ HandleResp(r, TRUE, h, FALSE, peer)) =>
             (peer \in bannedPeers' /\ currentPeers'[peer] = 0)]_vars

\* C5: no address is in currentPeers and in bannedPeers.
ConnectedNotBanned == Connected \cap bannedPeers = {}

\* A banned address is recorded in currentPeers with a handle nobody has
\* disconnected: banPeer ran between the pool task's publish and its record.
BannedStaysConnected ==
    \E a \in bannedPeers :
       /\ currentPeers[a] # 0
       /\ ~handles[currentPeers[a]].disc
       /\ pool.pc = "wait"

\* C6: currentPeers never holds more than NumTargetPeers entries.
AtMostTargetPeers == Cardinality(Connected) <= cfg.NumTargetPeers

\* C6's case: the target is met with fewer peers than the backend offers,
\* and again after a peer was lost and a later pass replaced it.
TargetMetAgain ==
    /\ Cardinality(Connected) = cfg.NumTargetPeers
    /\ cfg.NumTargetPeers < NumAddrs
    /\ pool.pc = "wait"
    /\ \E h \in 1..Len(handles) : handles[h].obs = "done"

\* C7: once Stop has returned, the pool task, every disconnect observer and
\* every fan-out goroutine has terminated.
NothingRunsAfterStop ==
    stopPc = "returned" =>
       /\ pool.pc = "done"
       /\ \A h \in 1..Len(handles) : handles[h].obs \in {"none", "done"}
       /\ \A t \in 1..Len(fanout) : fanout[t].st # "run"

\* Stop has returned and a fan-out goroutine launched after wg.Wait() is
\* still running.
FanOutOutlivesStop ==
    /\ stopPc = "returned"
    /\ \E t \in 1..Len(fanout) : fanout[t].st = "run"

\* The value of a Services string read as one hexadecimal number.
RECURSIVE HexValue(_, _)
HexValue(str, n) == IF n = 0 THEN 0 ELSE 16 * HexValue(str, n - 1) + str[n]

HasBit(n, k) == (n \div (2 ^ k)) % 2 = 1

Decodes(p) == Len(p.Services) = 16 /\ \A i \in 1..16 : p.Services[i] \in 0..15

\* NODE_NETWORK is bit 0, NODE_WITNESS bit 3, the pruned bit is bit 11.
FullWitnessNode(p) ==
    LET flags == HexValue(p.Services, 16)
    IN HasBit(flags, 0) /\ HasBit(flags, 3) /\ ~HasBit(flags, 11)

\* C8: of candidates whose flags decode, filterPeers returns exactly those
\* with NODE_NETWORK and NODE_WITNESS set and the pruned bit clear, in order.
FilterKeepsFullWitnessNodes ==
    (eligible.done /\ \A i \in 1..Len(peerInfos) : Decodes(peerInfos[i])) =>
       /\ ~eligible.err
       /\ eligible.eligible = SelectSeq(peerInfos, FullWitnessNode)

\* C8's case: one candidate kept, one with extra bits dropped for the pruned bit.
FilterKeepsOneDropsOne ==
    /\ eligible.done
    /\ Len(peerInfos) = 2
    /\ \A i \in 1..2 : Decodes(peerInfos[i])
    /\ peerInfos[1].Services = Services16(0, 12, 0, 9)
    /\ peerInfos[2].Services = Services16(1, 4, 0, 13)
    /\ eligible.eligible = <<peerInfos[2]>>

ChannelOncePerHash ==
    \A q \in 1..Len(queries), h \in Hashes :
       q \in Range(blocksQueried[h]) => Count(blocksQueried[h], q) = 1

\* C10 amended: a call's channel is in the list of a pending hash it is
\* registered for once per occurrence of the hash in the call's list.
ChannelOncePerOccurrence ==
    \A q \in 1..Len(queries), h \in Hashes :
       q \in Range(blocksQueried[h]) =>
          Count(blocksQueried[h], q) = Count(queries[q].hashes, h)

\* C10's case: a call that names a hash twice, registered behind another call.
ChannelRegisteredTwice ==
    \E q \in 1..Len(queries), h \in Hashes :
       /\ Count(queries[q].hashes, h) = 2
       /\ Count(blocksQueried[h], q) = 2
       /\ blocksQueried[h][1] # q

\* How many sends to the channel of query q are still to come: one for every
\* entry of q in a pending hash's list and in the rest of a running fan-out.
Registered(q) ==
    LET RECURSIVE Sum(_)
        Sum(h) == IF h = 0 THEN 0 ELSE Sum(h - 1) + Count(blocksQueried[h], q)
    IN Sum(NumHashes)

RECURSIVE ToSendUpTo(_, _)
ToSendUpTo(k, q) ==
    IF k = 0 THEN 0
    ELSE ToSendUpTo(k - 1, q)
         + (IF fanout[k].st = "run"
            THEN Cardinality({i \in fanout[k].next..Len(fanout[k].chans) :
                                 fanout[k].chans[i] = q})
            ELSE 0)

\* C11: a delivery channel nobody reads never holds more blocks than its
\* capacity len(hashes), the blocks in it and the sends still to come fit in
\* it together, and so the channel a running fan-out is about to send to
\* always has room.
SendNeverBlocks ==
    /\ \A q \in 1..Len(queries) :
          /\ queries[q].cap = Len(queries[q].hashes)
          /\ Len(queries[q].recv) <= queries[q].cap
          /\ Len(queries[q].recv) + Registered(q) + ToSendUpTo(Len(fanout), q)
                <= queries[q].cap
    /\ \A t \in 1..Len(fanout) :
          fanout[t].st = "run" =>
             LET c == fanout[t].chans[fanout[t].next]
             IN Len(queries[c].recv) < queries[c].cap

\* C11's case: a channel of capacity two that nobody read is full, one block
\* having come from a call that named the same hash twice.
UnreadChannelFull ==
    \E q \in 1..Len(queries) :
       /\ queries[q].cap = MaxLen
       /\ Len(queries[q].recv) = queries[q].cap
       /\ \E p \in 1..Len(queries) :
             /\ Len(queries[p].hashes) = 2
             /\ queries[p].hashes[1] = queries[p].hashes[2]
             /\ Len(queries[p].recv) = 2

\* C12: an address is in currentPeers exactly when the dispatcher holds a
\* handle for it whose disconnect signal has not fired. Read with the two
\* windows the code leaves open on purpose: a published handle the pool task
\* is about to record, and a handle whose signal fired and whose cleanup is
\* about to run.
ConnectedIffSignalNotFired ==
    /\ \A a \in Addrs :
          currentPeers[a] # 0 => handles[currentPeers[a]].obs # "done"
    /\ \A h \in 1..Len(handles) :
          (/\ handles[h].published
           /\ handles[h].obs = "waiting"
           /\ ~(pool.pc = "record" /\ pool.cur = h))
             => currentPeers[handles[h].addr] = h

\* The peer disconnected and its observer ran to the end while the pool task
\* stood between publishing and recording: the dead handle is in currentPeers
\* and nothing is left to remove it.
DeadHandleStaysConnected ==
    \E a \in Addrs :
       /\ currentPeers[a] # 0
       /\ handles[currentPeers[a]].disc
       /\ handles[currentPeers[a]].obs = "done"
       /\ pool.pc = "wait"

\* The handles of address a the work manager was given and whose connection
\* has not ended.
LivePublished(a) ==
    {h \in 1..Len(handles) :
        handles[h].addr = a /\ handles[h].published /\ ~handles[h].disc}

\* C13: the send on peersConnected hands over a handle that was never sent
\* before and whose handshake has completed, and at that moment the
\* work manager holds no other handle of the same address that is still
\* connected or still recorded in currentPeers.
PublishedOncePerConnection ==
    [][PoolPublish =>
          /\ ~handles[pool.cur].published
          /\ handles[pool.cur].conn
          /\ handles[pool.cur].obs # "none"
          /\ LivePublished(handles[pool.cur].addr) = {}
          /\ currentPeers[handles[pool.cur].addr] = 0
          /\ \A h \in 1..Len(handles) :
                h # pool.cur => handles'[h].published = handles[h].published]_vars

\* An address was published a second time while the handle published first
\* is still connected: the observer of an older handle of the address, one
\* the pool task dropped on shutdown, removed the newer handle's entry.
DuplicatePeerPublished ==
    \E g, h \in 1..Len(handles) :
       /\ g < h
       /\ handles[g].addr = handles[h].addr
       /\ handles[g].published /\ ~handles[g].disc
       /\ handles[h].published /\ ~handles[h].disc

\* C14: NewPrunedBlockDispatcher returns an error and no dispatcher exactly
\* when NumTargetPeers < 1 or MaxRequestInvs > MaxInvPerMsg; otherwise the
\* dispatcher it returns has empty blocksQueried, currentPeers and bannedPeers
\* and an open quit channel, and nothing was dialled, fetched or started.
NewValidatesAndBuilds ==
    [][NewPrunedBlockDispatcher =>
          /\ dispatcher' = "error"
                <=> (cfg.NumTargetPeers < 1 \/ cfg.MaxRequestInvs > MaxInvPerMsg)
          /\ dispatcher' = "error" => NoDispatcher'
          /\ dispatcher' # "error" =>
                /\ dispatcher' = "built"
                /\ \A h \in Hashes : blocksQueried'[h] = <<>>
                /\ \A a \in Addrs : currentPeers'[a] = 0
                /\ bannedPeers' = {}
                /\ ~quit'
                /\ handles' = <<>>
                /\ pool'.pc = "idle" /\ pool'.peers = <<>>
                /\ wg' = 0
                /\ Constructed(cfg)']_vars

\* C14's case: a configuration exactly at the inventory limit was accepted
\* and the dispatcher built from it has served a Query.
BuiltAtInvLimit ==
    /\ dispatcher = "built"
    /\ cfg.MaxRequestInvs = MaxInvPerMsg
    /\ cfg.NumTargetPeers = 1
    /\ Len(queries) = 1
    /\ Len(reqs) = 1

\* The hash at index i of the list is pending when the loop reaches it: it
\* was pending before the call or an earlier turn of the loop registered it.
PendingWhenReached(blocks, i) ==
    Pending(blocks[i]) \/ \E j \in 1..(i - 1) : blocks[j] = blocks[i]

\* C15: Query returns a nil error channel exactly when newRequest produced no
\* request, and that is exactly when every hash of the list was pending when
\* reached (or the list is empty); otherwise every request produced is handed
\* to the work manager.
ErrChanNilIffAllPending ==
    [][\A blocks \in HashLists :
          Query(blocks) =>
             /\ QueryErrChanNil(blocks) <=> Len(NewBatches) = 0
             /\ Len(NewBatches) = 0
                   <=> \A i \in 1..Len(blocks) : PendingWhenReached(blocks, i)
             /\ \A k \in 1..Len(NewBatches) :
                   /\ NewBatches[k].query = Len(queries) + 1
                   /\ ~NewBatches[k].fin]_vars

\* A call whose hashes were all pending left a request with an empty
\* inventory list with the work manager.
EmptyRequestForPendingHashes ==
    \E r \in 1..Len(reqs) :
       /\ reqs[r].inv = <<>>
       /\ queries[reqs[r].query].hashes # <<>>
       /\ \A i \in 1..Len(queries[reqs[r].query].hashes) :
             \E q \in 1..(reqs[r].query - 1) :
                queries[reqs[r].query].hashes[i] \in Range(queries[q].hashes)

\* A validated response has delivered h for some request.
Delivered(h) == \E r \in 1..Len(reqs) : h \in reqs[r].got

\* C16: a Query that names a hash delivered before, and not asked for again
\* since, creates one new inventory entry for it in a new request of its own
\* and is first in the hash's list; the fan-outs of earlier responses do not
\* know the new channel, which starts empty; and a block enters a channel
\* only by a step of a fan-out, i.e. after a validated response that found
\* the channel registered.
RefetchAfterDelivery ==
    [][/\ \A blocks \in HashLists :
             Query(blocks) =>
                LET q == Len(queries) + 1
                IN /\ \A h \in Range(blocks) :
                         (Delivered(h) /\ OpenInvs(h) = {}) =>
                            /\ ~Pending(h)
                            /\ Cardinality({k \in 1..Len(NewBatches) :
                                              /\ Count(NewBatches[k].inv, h) = 1
                                              /\ NewBatches[k].query = q
                                              /\ h \notin NewBatches[k].got}) = 1
                            /\ blocksQueried'[h][1] = q
                   /\ queries'[q].recv = <<>>
                   /\ \A t \in 1..Len(fanout) : q \notin Range(fanout[t].chans)
       /\ \A q \in 1..Len(queries), h \in Hashes :
             Count(queries'[q].recv, h) > Count(queries[q].recv, h) =>
                \E t \in 1..Len(fanout) :
                   /\ fanout[t].st = "run"
                   /\ fanout[t].block = h
                   /\ fanout[t].chans[fanout[t].next] = q
                   /\ fanout'[t].next = fanout[t].next + 1]_vars

\* C16's case: a hash was delivered to one call, asked for again by a later
\* call, fetched by a second request and delivered to that call as well.
RefetchedAndDeliveredAgain ==
    \E r1, r2 \in 1..Len(reqs), h \in Hashes :
       /\ r1 < r2
       /\ reqs[r1].query < reqs[r2].query
       /\ h \in reqs[r1].got /\ h \in reqs[r2].got
       /\ h \in Range(reqs[r1].inv) /\ h \in Range(reqs[r2].inv)
       /\ h \in Range(queries[reqs[r1].query].recv)
       /\ h \in Range(queries[reqs[r2].query].recv)
       /\ h \in Range(queries[reqs[r1].query].hashes)
       /\ h \in Range(queries[reqs[r2].query].hashes)

\* A tick in the current state begins a connection pass.
TickRunsPass == ENABLED (RefillTick /\ pool'.pc = "loop")

\* C17: with a backend that reports at least NumTargetPeers eligible,
\* unbanned peers which all accept the dial and complete the handshake, a
\* connection pass, the initial one or a later one, ends with exactly
\* NumTargetPeers entries in currentPeers; and a tick runs a pass exactly
\* when it finds fewer entries, a peer having disconnected.
PassFillsPool ==
    /\ [](pool.pc = "wait" =>
             (TickRunsPass <=> Cardinality(Connected) < cfg.NumTargetPeers))
    /\ [][(pool.pc \in {"loop", "record"} /\ pool'.pc = "wait")
             => Cardinality(Connected') = cfg.NumTargetPeers]_vars

\* C17's case: the pool was full, a peer disconnected and was removed, and
\* the pass of a later tick has connected a replacement.
RefilledAfterDisconnect ==
    /\ pool.pc = "wait"
    /\ Cardinality(Connected) = cfg.NumTargetPeers
    /\ \E a \in Addrs, g \in 1..Len(handles) :
          /\ currentPeers[a] # 0
          /\ g < currentPeers[a]
          /\ handles[g].published /\ handles[g].obs = "done"
          /\ ~handles[currentPeers[a]].disc

\* The pool task's step dials address a: connectToPeer runs for a handle of a.
Dials(a) ==
    /\ pool.pc = "connect"
    /\ pool'.pc # "connect"
    /\ handles[pool.cur].addr = a

\* The step writes an entry for address a into currentPeers.
Records(a) ==
    /\ currentPeers'[a] # 0
    /\ currentPeers'[a] # currentPeers[a]

\* C18: an address in bannedPeers stays there, and from the ban on no step of
\* the pool task dials it or records it in currentPeers.
BannedNeverDialledOrRecorded ==
    [][\A a \in bannedPeers :
          /\ a \in bannedPeers'
          /\ ~Dials(a)
          /\ ~Records(a)]_vars

\* C19: once Stop has returned, no step puts a block into a delivery channel.
NoDeliveryAfterStop ==
    [][stopPc = "returned" =>
          \A q \in 1..Len(queries) : queries'[q].recv = queries[q].recv]_vars

\* C20: from every state in which Stop has closed the shutdown signal, Stop
\* returns in the end, the pool task has then terminated, wherever it stood,
\* and every fan-out goroutine terminates.
StopReturns ==
    /\ quit ~> stopPc = "returned"
    /\ quit ~> pool.pc = "done"
    /\ quit ~> (stopPc = "returned" /\ \A t \in 1..Len(fanout) : fanout[t].st # "run")
    /\ [](stopPc = "returned" => pool.pc = "done")

\* What shutdown does achieve: no goroutine hangs. The pool task and every
\* fan-out goroutine terminate, and Stop comes to an end, by returning or by
\* the panic of d.wg.Wait().
StopReturnsOrPanics ==
    /\ quit ~> stopPc \in {"returned", "panicked"}
    /\ quit ~> pool.pc = "done"
    /\ quit ~> \A t \in 1..Len(fanout) : fanout[t].st # "run"

\* Stop panicked in d.wg.Wait(): the pool task's exit released it, and a
\* response validated before it woke up had raised the counter again.
StopPanicked ==
    /\ stopPc = "panicked"
    /\ pool.pc = "done"
    /\ \E t \in 1..Len(fanout) : TRUE

\* The first position of block h in the delivery channel of query q (0: the
\* channel does not hold it).
FirstAt(q, h) ==
    IF h \in Range(queries[q].recv)
    THEN CHOOSE i \in 1..Len(queries[q].recv) :
            /\ queries[q].recv[i] = h
            /\ \A j \in 1..(i - 1) : queries[q].recv[j] # h
    ELSE 0

\* C21 as claimed: when handleResp validated the block of h1 before that of
\* h2 (the fan-out goroutines are numbered in the order of their launch) and
\* one Query asked for both, that Query's channel holds h1 before h2.
DeliveryFollowsArrival ==
    \A t1, t2 \in 1..Len(fanout), q \in 1..Len(queries) :
       (/\ t1 < t2
        /\ fanout[t1].block # fanout[t2].block
        /\ q \in Range(fanout[t1].chans)
        /\ q \in Range(fanout[t2].chans)
        /\ FirstAt(q, fanout[t1].block) # 0
        /\ FirstAt(q, fanout[t2].block) # 0)
          => FirstAt(q, fanout[t1].block) < FirstAt(q, fanout[t2].block)

IsPrefix(s, t) == Len(s) <= Len(t) /\ SubSeq(t, 1, Len(s)) = s

\* C21 amended: a delivery channel is a queue, a block enters it at the end,
\* by a send of the fan-out goroutine launched for it and never by handleResp
\* itself, and when handleResp validates a block no channel registered for it
\* holds that block yet. So the block of h1 is ahead of the block of h2 in a
\* Query's channel whenever the fan-out of h1 has sent to it before h2 is
\* validated; between two fan-outs that both run, the order is open.
DeliveryFollowsSendOrder ==
    [][/\ \A q \in 1..Len(queries) : IsPrefix(queries[q].recv, queries'[q].recv)
       /\ \A r \in 1..Len(reqs), h \in Hashes, peer \in Addrs :
             HandleResp(r, TRUE, h, TRUE, peer) =>
                /\ \A q \in Range(blocksQueried[h]) : h \notin Range(queries[q].recv)
                /\ \A q \in 1..Len(queries) : queries'[q].recv = queries[q].recv]_vars

\* C21's case: one Query asked for two hashes, the block of the first was
\* validated first, and the channel holds the block validated second ahead
\* of it.
DeliveredAgainstArrival ==
    \E t1, t2 \in 1..Len(fanout), q \in 1..Len(queries) :
       /\ t1 < t2
       /\ fanout[t1].chans = <<q>>
       /\ fanout[t2].chans = <<q>>
       /\ queries[q].recv = <<fanout[t2].block, fanout[t1].block>>
       /\ queries[q].hashes = <<fanout[t1].block, fanout[t2].block>>

\* C22: a handle built by newQueryPeer allows self-connections exactly when
\* the configuration's AllowSelfPeerConns is set.
SelfConnsOnlyIfConfigured ==
    \A h \in 1..Len(handles) :
       handles[h].AllowSelfConns <=> cfg.AllowSelfPeerConns

\* With the flag unset, a handle that allows self-connections has completed
\* its handshake and was handed to the work manager.
SelfConnsAllowedInProduction ==
    /\ ~cfg.AllowSelfPeerConns
    /\ \E h \in 1..Len(handles) :
          handles[h].AllowSelfConns /\ handles[h].conn /\ handles[h].published

NoProgress == [Progressed |-> FALSE, Finished |-> FALSE]

\* C23: when a block whose hash is pending fails validation, handleResp
\* returns {false, false}, leaves the hash pending with its whole channel
\* list, leaves every request as it was and sends nothing; the request is
\* then still open to a valid block from any peer the work manager holds,
\* whose fan-out carries that whole list; and a fan-out that has run to its
\* end has put the block into every channel of its list.
InvalidBlockLeavesRequestOpen ==
    /\ [][\A r \in 1..Len(reqs), h \in Hashes, peer \in Addrs :
             (Pending(h) /\ HandleResp(r, TRUE, h, FALSE, peer)) =>
                /\ RespProgress(r, TRUE, h, FALSE) = NoProgress
                /\ blocksQueried' = blocksQueried
                /\ queries' = queries
                /\ fanout' = fanout
                /\ reqs' = reqs
                /\ wg' = wg]_vars
    /\ [](\A r \in 1..Len(reqs), h \in Hashes, peer \in PublishedAddrs :
             (Pending(h) /\ ~reqs[r].fin /\ h \in Range(reqs[r].inv)) =>
                ENABLED (/\ HandleResp(r, TRUE, h, TRUE, peer)
                         /\ fanout'[Len(fanout')].block = h
                         /\ fanout'[Len(fanout')].chans = blocksQueried[h]
                         /\ fanout'[Len(fanout')].st = "run"
                         /\ ~Pending(h)'))
    /\ [](\A t \in 1..Len(fanout) :
             fanout[t].st = "done" =>
                \A q \in 1..Len(queries) :
                   Count(queries[q].recv, fanout[t].block) >= Count(fanout[t].chans, q))

\* C23's case: one peer was banned for an invalid block of a hash two calls
\* wait for, the other peer's valid block answered the same request, and
\* both calls have the block.
ServedAfterInvalidBlock ==
    /\ bannedPeers # {}
    /\ Len(queries) = 2
    /\ \A q \in 1..2 : queries[q].hashes = <<1>> /\ queries[q].recv = <<1>>
    /\ Len(reqs) = 1
    /\ reqs[1].fin
    /\ \E a \in bannedPeers : handles[currentPeers[a]].disc

\* The work manager may call handleResp for request r with a message from
\* the peer at the given address.
MayRespond(r, peer) ==
    /\ stopPc # "returned"
    /\ pool.pc # "idle"
    /\ ~reqs[r].fin
    /\ ~reqs[r].failed
    /\ peer \in PublishedAddrs

\* C24: for a response that is no block, or a block whose hash is not
\* pending, handleResp returns {false, false} and changes nothing: the
\* registry, currentPeers, bannedPeers, the peers' connections, the channels
\* and the fan-out goroutines are as before. (The third case of the claim, a
\* request that is no getdata message, has no instance: every request that
\* carries handleResp is built by newRequest around a getdata message.)
IgnoredResponseChangesNothing ==
    /\ [](\A r \in 1..Len(reqs), h \in Hashes, valid \in BOOLEAN, peer \in Addrs :
             MayRespond(r, peer) =>
                /\ RespProgress(r, FALSE, h, valid) = NoProgress
                /\ ENABLED (HandleResp(r, FALSE, h, valid, peer) /\ UNCHANGED vars)
                /\ ~Pending(h) =>
                      /\ RespProgress(r, TRUE, h, valid) = NoProgress
                      /\ ENABLED (HandleResp(r, TRUE, h, valid, peer) /\ UNCHANGED vars))
    /\ [][\A r \in 1..Len(reqs), isBlock \in BOOLEAN, h \in Hashes,
             valid \in BOOLEAN, peer \in Addrs :
             (HandleResp(r, isBlock, h, valid, peer) /\ (~isBlock \/ ~Pending(h))) =>
                /\ blocksQueried' = blocksQueried
                /\ currentPeers' = currentPeers
                /\ bannedPeers' = bannedPeers
                /\ handles' = handles
                /\ queries' = queries
                /\ fanout' = fanout
                /\ reqs' = reqs
                /\ wg' = wg]_vars

\* C24's case: a request for two hashes is open, one of them was delivered
\* and is pending no more, so a second copy of its block is a stale
\* response; no peer was banned.
StaleResponsePossible ==
    \E r \in 1..Len(reqs), h \in Hashes, peer \in Addrs :
       /\ MayRespond(r, peer)
       /\ Len(reqs[r].inv) = 2
       /\ h \in reqs[r].got
       /\ ~Pending(h)
       /\ h \in Range(queries[reqs[r].query].recv)
       /\ bannedPeers = {}

\* The connection attempt for handle h failed: the dial (no connection) or
\* the wait for the handshake (connection dropped, no observer).
FailedAttempt(h) ==
    /\ ~(pool.pc = "connect" /\ pool.cur = h)
    /\ \/ ~handles[h].conn
       \/ handles[h].disc /\ handles[h].obs = "none"

\* C25: a dial failure or a ready timeout leaves bannedPeers and currentPeers
\* as they are and publishes nothing, and the pass goes on with the next
\* candidate (or ends after the last); a handle whose attempt failed is never
\* published, recorded or observed; when peers are needed a tick can begin a
\* pass over any address the backend reports; and a candidate that is neither
\* banned nor connected is dialled, whatever failed for its address before.
FailedDialIsRetried ==
    /\ [][\A outcome \in {"dialerr", "timeout"} :
             PoolConnect(outcome) =>
                /\ bannedPeers' = bannedPeers
                /\ currentPeers' = currentPeers
                /\ \A h \in 1..Len(handles) : handles'[h].published = handles[h].published
                /\ pool' = NextCandidate(pool.peers, pool.idx + 1)]_vars
    /\ [](\A h \in 1..Len(handles) :
             FailedAttempt(h) =>
                /\ ~handles[h].published
                /\ handles[h].obs = "none"
                /\ \A a \in Addrs : currentPeers[a] # h)
    /\ [](\A a \in Addrs :
             (pool.pc = "wait" /\ PeersNeeded(cfg.NumTargetPeers, currentPeers) > 0) =>
                ENABLED (PoolTick /\ pool'.pc = "loop" /\ pool'.peers[1] = a))
    /\ []((/\ pool.pc = "loop"
           /\ ~SkipCandidate(bannedPeers, currentPeers, pool.peers[pool.idx])
           /\ Len(handles) < MaxHandles) =>
             ENABLED (/\ PoolCheck
                      /\ pool'.pc = "connect"
                      /\ handles'[pool'.cur].addr = pool.peers[pool.idx]))
    /\ [](pool.pc = "connect" =>
             \A outcome \in {"dialerr", "timeout", "ready"} : ENABLED PoolConnect(outcome))

\* C25's case: the dial to an address failed, the same pass went on and
\* connected the other address, which then disconnected; a later pass
\* dialled the first address again and connected it.
RedialledAfterFailure ==
    \E g, h \in 1..Len(handles) :
       /\ g < h
       /\ handles[g].addr = handles[h].addr
       /\ ~handles[g].conn
       /\ FailedAttempt(g)
       /\ handles[h].conn /\ handles[h].published /\ ~handles[h].disc
       /\ currentPeers[handles[h].addr] = h
       /\ bannedPeers = {}
       /\ \E k \in 1..Len(handles) :
             g < k /\ k < h /\ handles[k].addr # handles[g].addr /\ handles[k].published

\* The hashes of the list, from index i on, that are not pending when the
\* loop reaches them, in the order of the list.
RECURSIVE NotPendingWhenReached(_, _)
NotPendingWhenReached(blocks, i) ==
    IF i > Len(blocks) THEN <<>>
    ELSE (IF PendingWhenReached(blocks, i) THEN <<>> ELSE <<blocks[i]>>)
            \o NotPendingWhenReached(blocks, i + 1)

\* The inventory lists of the batches from index k on, one after the other.
RECURSIVE ConcatInvs(_, _)
ConcatInvs(batches, k) ==
    IF k > Len(batches) THEN <<>>
    ELSE batches[k].inv \o ConcatInvs(batches, k + 1)

\* C26: the inventory lists of the batches a Query hands over, put one after
\* the other in the order of the batches, are the hashes of the input that
\* were not pending when reached, in input order, each once.
BatchesPreserveInputOrder ==
    [][\A blocks \in HashLists :
          Query(blocks) =>
             /\ ConcatInvs(NewBatches, 1) = NotPendingWhenReached(blocks, 1)
             /\ \A h \in Hashes : Count(ConcatInvs(NewBatches, 1), h) <= 1
             /\ SubSeq(reqs', 1, Len(reqs)) = reqs]_vars

\* C26's case: a call for <<2, 1>> under MaxRequestInvs = 1 gave two batches,
\* the one for hash 2 first.
TwoBatchesInInputOrder ==
    \E r \in 1..Len(reqs) :
       /\ r < Len(reqs)
       /\ cfg.MaxRequestInvs = 1
       /\ reqs[r].query = reqs[r + 1].query
       /\ queries[reqs[r].query].hashes = <<2, 1>>
       /\ reqs[r].inv = <<2>>
       /\ reqs[r + 1].inv = <<1>>

\* The work manager still works on request r.
InFlight(r) == ~reqs[r].fin /\ ~reqs[r].failed

\* C27: whenever a hash is pending, a request whose inventory list holds it
\* is in flight in the work manager: not finished, not failed, not cancelled.
PendingHasRequestInFlight ==
    \A h \in Hashes :
       Pending(h) => \E r \in 1..Len(reqs) : h \in Range(reqs[r].inv) /\ InFlight(r)

\* The part of C27 that rests on the dispatcher alone: a request holding a
\* pending hash is never one handleResp has reported finished.
PendingHasUnfinishedRequest ==
    \A h \in Hashes :
       Pending(h) => \E r \in 1..Len(reqs) : h \in Range(reqs[r].inv) /\ ~reqs[r].fin

\* A call was deduplicated against the request of an earlier call after the
\* work manager had given that request up: its hash is pending, nothing is
\* in flight for it, and the call has no request and no block.
CallerWaitsForFailedRequest ==
    \E q \in 1..Len(queries), h \in Hashes :
       /\ h \in Range(queries[q].hashes)
       /\ queries[q].recv = <<>>
       /\ q \in Range(blocksQueried[h])
       /\ \A r \in 1..Len(reqs) : reqs[r].query # q /\ reqs[r].failed
       /\ reqs # <<>>

\* C28: once the disconnect signal of a published handle has fired and its
\* observer has run its cleanup, the handle is not in currentPeers, however
\* the cleanup interleaved with the pool task's publish and record (the pool
\* task standing between the two is the one moment left out).
AbsentAfterDisconnect ==
    \A h \in 1..Len(handles) :
       (/\ handles[h].published
        /\ handles[h].obs = "done"
        /\ ~(pool.pc = "record" /\ pool.cur = h))
          => currentPeers[handles[h].addr] # h

\* Every entry of a full pool is a handle whose signal fired and whose
\* cleanup is over: no tick will dial again.
DeadPoolLooksFull ==
    /\ pool.pc = "wait"
    /\ PeersNeeded(cfg.NumTargetPeers, currentPeers) = 0
    /\ \A a \in Connected :
          handles[currentPeers[a]].disc /\ handles[currentPeers[a]].obs = "done"

\* C30: handleResp reports progress for a request only when the block it
\* validated is for a hash of that request's inventory list, and reports the
\* request finished only then.
ProgressOnlyForOwnHash ==
    [][\A r \in 1..Len(reqs), h \in Hashes, valid \in BOOLEAN, peer \in Addrs :
          HandleResp(r, TRUE, h, valid, peer) =>
             /\ RespProgress(r, TRUE, h, valid).Progressed => h \in Range(reqs[r].inv)
             /\ RespProgress(r, TRUE, h, valid).Finished => h \in Range(reqs[r].inv)]_vars

\* Two calls asked for one hash each. The block of the second call's hash
\* was accepted as the answer to the first call's request, which was
\* reported finished by it; the second call's request, whose block has been
\* delivered, is still open.
FinishedByForeignBlock ==
    /\ Len(reqs) = 2
    /\ reqs[1].inv = <<1>> /\ reqs[2].inv = <<2>>
    /\ reqs[1].query # reqs[2].query
    /\ reqs[1].fin
    /\ ~reqs[2].fin
    /\ ~Pending(1) /\ ~Pending(2)
    /\ 2 \in reqs[2].got

\* C29: a task that holds blockMtx or peerMtx is never blocked: its next step,
\* the rest of the critical section up to the Unlock, can always be taken; it
\* waits for no channel and for no other mutex (handleResp is not in banPeer
\* while it holds blockMtx), so every mutex held is released and the tasks
\* cannot deadlock.
NoBlockingUnderLock ==
    /\ blockMtx.task = "newRequest" => ENABLED RunNewRequest
    /\ blockMtx.task = "handleResp" =>
          /\ ENABLED RunHandleResp
          /\ blockMtx.peer \notin banCalls
    /\ peerMtx.task = "banPeer" => ENABLED RunBanPeer
    /\ peerMtx.task = "pool" =>
          /\ pool.pc \in {"loop", "record"}
          /\ pool.pc = "loop" => ENABLED RunPoolCheck
          /\ pool.pc = "record" => ENABLED RunPoolRecord
    /\ peerMtx.task = "observer" => ENABLED RunObserver
    /\ blockMtx.task \in {"none", "newRequest", "handleResp"}
    /\ peerMtx.task \in {"none", "banPeer", "pool", "observer"}

\* C29 witness: both mutexes are held, blockMtx by a handleResp call and
\* peerMtx by the pool task, while a banPeer call waits for peerMtx.
BanPeerWaitsWithBothHeld ==
    /\ blockMtx.task = "handleResp"
    /\ peerMtx.task = "pool"
    /\ banCalls # {}

\* C31: with MaxRequestInvs >= 1 no request has an empty inventory: neither
\* one that was handed to the work manager, nor one that newRequest would
\* emit for any list of hashes against the entries pending now.
NoEmptyRequest ==
    cfg.MaxRequestInvs >= 1 =>
        /\ \A r \in 1..Len(reqs) : Len(reqs[r].inv) >= 1
        /\ \A blocks \in HashLists :
              LET res == newRequest(blocks, 0, cfg.MaxRequestInvs, blocksQueried)
              IN \A k \in 1..Len(res.reqs) : Len(res.reqs[k]) >= 1

\* C31 witness: with MaxRequestInvs >= 1, a second call whose list holds new
\* hashes and ends with a hash still pending from the first call (nothing
\* was delivered in between) has produced requests.
RequestsFromMixedList ==
    /\ cfg.MaxRequestInvs >= 1
    /\ Len(queries) = 2
    /\ \A r \in 1..Len(reqs) : reqs[r].got = {} /\ ~reqs[r].fin
    /\ LET first == Range(queries[1].hashes)
           second == queries[2].hashes
       IN /\ Len(second) >= 2
          /\ second[Len(second)] \in first
          /\ \E i \in 1..Len(second) : second[i] \notin first
    /\ \E r \in 1..Len(reqs) : reqs[r].query = 2


====
